---- MODULE Spec2Model ----
(***************************************************************************)
(* Wallet balancer of internal-price-oracle-with-wallet-balancer:          *)
(* WalletBalancerService.processPriceMessage, TriggerEvaluator,            *)
(* EOAExecutionEngine.executeTransfer and TransferIntentRepository over    *)
(* the transfer_intents table.                                             *)
(*                                                                         *)
(* Every call of processPriceMessage / executeTransfer is an async run; a  *)
(* run is cut into one action per awaited store or chain call, so runs     *)
(* interleave exactly where the JavaScript event loop lets them.           *)
(*                                                                         *)
(* The store answers every call of the engine: the store errors modelled   *)
(* are the unique-index violation of insertPlanned and, in SpecAmount, the *)
(* failing lookup of getIntentsByStatus. The chain calls may reject.       *)
(* Prices, thresholds and amounts are exact integers (the code compares    *)
(* IEEE doubles); the idempotency key is the hashed tuple itself.          *)
(*                                                                         *)
(* Price oracle of the same repository: PriceOracleAggregator              *)
(* (getConsolidatedPrice, isValid, checkDivergence, the median) over the   *)
(* adapters' answers and DatabaseLastGoodStore. SpecAgg runs overlapping   *)
(* GET /price/:token requests against the last-good table; SpecQuotes      *)
(* applies the aggregation functions to lists of quotes; SpecTrigger       *)
(* applies evaluateTrigger to triggers, histories and prices, SpecAmount   *)
(* to amounts, balances and failing lookups; SpecRescale and SpecGather    *)
(* apply rescale and gatherOraclePrices; SpecService starts and stops the  *)
(* service from construction on, while the other balancer specifications   *)
(* begin with the service started. A moveAmount is held in hundredths and  *)
(* the floor of its double product is tabulated (RoundsBelow). Mantissas,  *)
(* liquidity and confidence are small stand-ins at 17 to 19 decimals; ttl, *)
(* epsilon, deltaBps and the scale of 18 decimals are those of the code.   *)
(* A Pyth confidence is a bigint (the tests) or a decimal string (the      *)
(* production PythAdapter); the double arithmetic of the second case is    *)
(* done on exact rationals, epsilon being a multiple of 10^-7.             *)
(***************************************************************************)
EXTENDS Integers, Sequences, FiniteSets, TLC

VARIABLES
    intents,    \* rows of table transfer_intents, in insertion order
    chain,      \* transactions the signer has broadcast, in order
    now,        \* Date.now(), in milliseconds
    run,        \* per call slot: where the async call stands and its locals
    fired,      \* signals returned by evaluateTrigger, in order
    msgCount,   \* price messages handed to processPriceMessage so far
    repoCalls,  \* direct calls of the repository made so far
    repoOut,    \* what the last direct call of the repository did
    lastGoodStore, \* rows of table last_good_store, in insertion order
    oracleNow,  \* Date.now() of the price oracle, in seconds
    agg,        \* per request slot: where getConsolidatedPrice stands
    quotes,     \* PriceData[] handed to the aggregation functions
    config,     \* TokenConfig handed to the aggregation functions
    verdict,    \* what the aggregation functions made of quotes and config
    evaluation, \* trigger, price and balance handed to evaluateTrigger, and
                \* what it returned for them
    service,    \* the WalletBalancerService: isRunning, the start() calls
                \* awaiting initializeDatabase, the events emitted and the
                \* start/stop calls made
    lookup      \* how TransferIntentModel.findAll answers getIntentsByStatus

balancerVars == <<intents, chain, now, run, fired, msgCount, repoCalls, repoOut>>

oracleVars == <<lastGoodStore, oracleNow, agg, quotes, config, verdict>>

serviceVars == <<service, lookup>>

vars == <<intents, chain, now, run, fired, msgCount, repoCalls, repoOut,
          lastGoodStore, oracleNow, agg, quotes, config, verdict, evaluation,
          service, lookup>>

----------------------------------------------------------------------------
(* Bounds of the model *)

MaxMsgs == 2          \* price messages processed in one behaviour
MaxRepoCalls == 1     \* direct repository calls in one behaviour
MaxNow == 500         \* the clock stops advancing here (ms)
TickMs == 500         \* granularity of the clock (ms)

Procs == {"r1", "r2"} \* call slots that may be in flight at once

(* Inputs *)
PriceMsgs ==               \* $1990.0 and $2500.0 for ETH
    {[token |-> "ETH", price |-> 19900, priceDecimals |-> 1],
     [token |-> "ETH", price |-> 25000, priceDecimals |-> 1]}
Balances == {0, 4000}

----------------------------------------------------------------------------
(* Types *)

NoTx == 0
MsPerSec == 1000
BpsDenominator == 10000
PercentScale == 1000000
Infinity == 2147483647

TransferIntentStatus ==
    {"PLANNED", "PROPOSED", "SUBMITTED", "MINED_SUCCESS", "MINED_FAILED"}

\* The one configured trigger: the trigger of price-trigger-flow.test.ts,
\* with a cooldown of one second so that the model's clock spans it.
\* moveAmount is held in hundredths (5000 is 50, here 50%). Next to it a
\* trigger of another asset that is to be executed through a Safe.
TriggerTable ==
    <<[id |-> 1, assetAddress |-> "ETH", threshold |-> 2000,
       direction |-> "hot_to_cold",
       moveAmountType |-> "PERCENT", moveAmount |-> 5000,
       executionMode |-> "EOA", hysteresisBps |-> 100,
       cooldownSec |-> 1, enabled |-> TRUE],
      [id |-> 2, assetAddress |-> "WBTC", threshold |-> 2000,
       direction |-> "hot_to_cold",
       moveAmountType |-> "PERCENT", moveAmount |-> 5000,
       executionMode |-> "SAFE_PROPOSE", hysteresisBps |-> 100,
       cooldownSec |-> 1, enabled |-> TRUE]>>

\* TriggerModel.findAll({where: {assetAddress, chainId, enabled: true}})
getEnabledTriggersByTokenChain(assetAddress) ==
    SelectSeq(TriggerTable, LAMBDA t : t.enabled /\ t.assetAddress = assetAddress)

signerConfigured == TRUE

RECURSIVE Pow10(_)
Pow10(n) == IF n = 0 THEN 1 ELSE 10 * Pow10(n - 1)

RowsOf(key) == {i \in 1..Len(intents) : intents[i].idempotencyKey = key}

----------------------------------------------------------------------------
(* TransferIntentRepository *)

findByIdempotencyKey(key) == RowsOf(key)

\* how the table answers the findAll of getIntentsByStatus: with the rows;
\* with an error, which getIntentsByStatus catches; or getIntentsByStatus
\* itself rejects, as the repository mocked in TriggerEvaluator.test.ts does
Lookups == {"rows", "failed", "rejected"}

\* `try { findAll({where: {status}}) } catch { return [] }`
getIntentsByStatus(status) ==
    IF lookup = "rows"
    THEN {i \in 1..Len(intents) : intents[i].status = status}
    ELSE {}

\* the index on idempotency_key declared without `unique`
insertAllowedNoUnique(key) == TRUE

\* TransferIntentModel.create under the unique index on idempotency_key
insertAllowed(key) == RowsOf(key) = {}

insertPlanned(intent) == Append(intents, intent)

\* updateStatus that leaves txHash out of updateData
updateStatusDropsTxHash(key, status, txHash) ==
    [i \in 1..Len(intents) |->
        IF intents[i].idempotencyKey = key
        THEN [intents[i] EXCEPT !.status = status]
        ELSE intents[i]]

\* TransferIntentModel.update(updateData, {where: {idempotencyKey}})
updateStatus(key, status, txHash) ==
    [i \in 1..Len(intents) |->
        IF intents[i].idempotencyKey = key
        THEN [intents[i] EXCEPT !.status = status,
                                !.txHash = IF txHash # NoTx THEN txHash ELSE @]
        ELSE intents[i]]

----------------------------------------------------------------------------
(* TriggerEvaluator *)

isThresholdMetStrict(trigger, price, decimals) ==
    IF trigger.direction = "hot_to_cold"
    THEN price * BpsDenominator >
            trigger.threshold * (BpsDenominator + trigger.hysteresisBps) * Pow10(decimals)
    ELSE price * BpsDenominator <
            trigger.threshold * (BpsDenominator - trigger.hysteresisBps) * Pow10(decimals)

isThresholdMetBelow(trigger, price, decimals) ==
    price * BpsDenominator <=
        trigger.threshold * (BpsDenominator - trigger.hysteresisBps) * Pow10(decimals)

isThresholdMet(trigger, price, decimals) ==
    IF trigger.direction = "hot_to_cold"
    THEN price * BpsDenominator >=
            trigger.threshold * (BpsDenominator + trigger.hysteresisBps) * Pow10(decimals)
    ELSE price * BpsDenominator <=
            trigger.threshold * (BpsDenominator - trigger.hysteresisBps) * Pow10(decimals)

\* The moveAmounts up to 1.00 whose product (moveAmount / 100) * 1e6, taken
\* on IEEE doubles, falls just below the whole number it stands for:
\* 0.7 / 100 is 0.006999999999999999 and times 1e6 is 6999.999999999999.
\* In hundredths.
RoundsBelow == {35, 41, 47, 57, 61, 70, 71, 82, 94, 99}

\* Math.floor((moveAmount / 100) * 1e6) on doubles, for a moveAmount in
\* hundredths that is at most 1.00 or a whole number (whole numbers up to
\* 200 come out exact)
percentPpm(moveAmount) ==
    IF moveAmount \in RoundsBelow THEN moveAmount * 100 - 1 ELSE moveAmount * 100

calculateTransferAmount(trigger, currentBalance) ==
    IF trigger.moveAmountType = "ABSOLUTE"
    THEN trigger.moveAmount * Pow10(16)
    ELSE (currentBalance * percentPpm(trigger.moveAmount)) \div PercentScale

\* the catch around the lookup returns 0
getTimeSinceLastTrigger(triggerId) ==
    LET mined == {i \in getIntentsByStatus("MINED_SUCCESS") :
                      intents[i].triggerId = triggerId}
    IN  IF lookup = "rejected" THEN 0
        ELSE IF mined = {} THEN Infinity
        ELSE LET last == CHOOSE i \in mined :
                             \A j \in mined : intents[j].createdAt <= intents[i].createdAt
             IN  (now - intents[last].createdAt) \div MsPerSec

evaluateTriggerAnyAmount(trigger, priceMsg, currentBalance) ==
    IF ~trigger.enabled THEN << >>
    ELSE IF getTimeSinceLastTrigger(trigger.id) < trigger.cooldownSec THEN << >>
    ELSE IF ~isThresholdMet(trigger, priceMsg.price, priceMsg.priceDecimals) THEN << >>
    ELSE <<[triggerId |-> trigger.id,
            price |-> priceMsg.price,
            direction |-> trigger.direction,
            amount |-> calculateTransferAmount(trigger, currentBalance),
            executionMode |-> trigger.executionMode,
            timestamp |-> priceMsg.at]>>

\* <<signal>> when the trigger fires, << >> for null
evaluateTrigger(trigger, priceMsg, currentBalance) ==
    IF ~trigger.enabled THEN << >>
    ELSE IF getTimeSinceLastTrigger(trigger.id) < trigger.cooldownSec THEN << >>
    ELSE IF ~isThresholdMet(trigger, priceMsg.price, priceMsg.priceDecimals) THEN << >>
    ELSE LET transferAmount == calculateTransferAmount(trigger, currentBalance)
         IN  IF transferAmount = 0 THEN << >>
             ELSE IF transferAmount > currentBalance THEN << >>
             ELSE <<[triggerId |-> trigger.id,
                     price |-> priceMsg.price,
                     direction |-> trigger.direction,
                     amount |-> transferAmount,
                     executionMode |-> trigger.executionMode,
                     timestamp |-> priceMsg.at]>>

RECURSIVE evaluateTriggers(_, _, _)
evaluateTriggers(triggers, priceMsg, currentBalance) ==
    IF triggers = << >> THEN << >>
    ELSE evaluateTrigger(Head(triggers), priceMsg, currentBalance)
            \o evaluateTriggers(Tail(triggers), priceMsg, currentBalance)

----------------------------------------------------------------------------
(* EOAExecutionEngine *)

\* a key that takes in the Date.now() of the call as well
generateIdempotencyKeyAtNow(signal) ==
    <<signal.triggerId, signal.timestamp, signal.amount, signal.direction, now>>

\* keccak256 of "triggerId-timestamp-amount-direction", kept as the tuple;
\* the Math.floor(Date.now() / 1000) taken on the way is not used
generateIdempotencyKey(signal) ==
    <<signal.triggerId, signal.timestamp, signal.amount, signal.direction>>

isAvailable == signerConfigured

----------------------------------------------------------------------------
(* Call slots *)

NoSignal == [triggerId |-> 0]

IdleRun ==
    [pc |-> "idle", alive |-> TRUE, pending |-> << >>, signal |-> NoSignal,
     txHash |-> NoTx, receipt |-> "none", out |-> "none", found |-> "none"]

InFlight(p) == run[p].alive /\ run[p].pc \notin {"idle", "done"}

Free(p) == ~InFlight(p)

KeyOf(p) == generateIdempotencyKey(run[p].signal)

\* WalletBalancerService.executeTransfers: take the next signal, or finish
Begin(signals, out) ==
    IF signals = << >>
    THEN [IdleRun EXCEPT !.pc = "done", !.out = out]
    ELSE [IdleRun EXCEPT !.pc = "find", !.pending = Tail(signals),
                         !.signal = Head(signals)]

\* the engine returned for the current signal of p
Return(p, out) ==
    IF run[p].pending = << >>
    THEN [run[p] EXCEPT !.pc = "done", !.out = out, !.txHash = NoTx]
    ELSE [run[p] EXCEPT !.pc = "find", !.out = out,
                        !.signal = Head(run[p].pending),
                        !.pending = Tail(run[p].pending),
                        !.txHash = NoTx, !.receipt = "none"]

NoCall == [op |-> "none"]

----------------------------------------------------------------------------
(* Price oracle: types/index.ts, PriceOracleAggregator, the last-good      *)
(* store. Prices are bigint mantissas with a decimals count; the mantissas *)
(* of the model are small and their decimals lie next to SCALE_DECIMALS,   *)
(* so that rescaled values stay far below 2^31.                            *)

SCALE_DECIMALS == 18
ConfidenceScale == 1000000
DefaultDeltaBps == 150
EpsilonDigits == 7               \* epsilon is held in units of 10^-7
EpsilonDenominator == Pow10(EpsilonDigits)
DefaultEpsilon == 100000         \* DEFAULTS.epsilon = 0.01

OracleSource == {"chainlink", "pyth", "uniswap_v3_twap", "api3"}

DefaultTtl ==
    [chainlink |-> 300, pyth |-> 30, uniswap_v3_twap |-> 1800, api3 |-> 300]

Has(r, field) == field \in DOMAIN r

Abs(x) == IF x < 0 THEN -x ELSE x

\* bigint `/`: the quotient truncated toward zero
TruncDiv(a, b) ==
    IF (a < 0) = (b < 0) THEN Abs(a) \div Abs(b) ELSE -(Abs(a) \div Abs(b))

\* a median that takes the upper middle element for an even count too
medianUpperMiddle(values) == values[(Len(values) \div 2) + 1]

\* medianBigInt: values[mid] for odd n, (values[mid-1] + values[mid]) / 2n
\* for even n, mid = n >> 1, indices from 0
medianBigInt(values) ==
    IF Len(values) % 2 = 1
    THEN values[(Len(values) \div 2) + 1]
    ELSE TruncDiv(values[Len(values) \div 2] + values[(Len(values) \div 2) + 1], 2)

\* a rescale that divides with the floored quotient
rescaleFloored(value, fromDecimals, toDecimals) ==
    IF fromDecimals = toDecimals THEN value
    ELSE IF fromDecimals > toDecimals
         THEN value \div Pow10(fromDecimals - toDecimals)
         ELSE value * Pow10(toDecimals - fromDecimals)

rescale(value, fromDecimals, toDecimals) ==
    IF fromDecimals = toDecimals THEN value
    ELSE IF fromDecimals > toDecimals
         THEN TruncDiv(value, Pow10(fromDecimals - toDecimals))
         ELSE value * Pow10(toDecimals - fromDecimals)

\* Array.prototype.sort((a, b) => (a > b ? 1 : -1)): ascending
RECURSIVE SortAsc(_)
SortAsc(s) ==
    IF s = << >> THEN << >>
    ELSE LET i == CHOOSE i \in 1..Len(s) : \A j \in 1..Len(s) : s[i] <= s[j]
         IN  <<s[i]>> \o SortAsc([k \in 1..(Len(s) - 1) |->
                                      IF k < i THEN s[k] ELSE s[k + 1]])

\* the rescaled prices left in the order of the quotes
getSortedRescaledPricesNoSort(values) ==
    [i \in 1..Len(values) |->
        rescale(values[i].price, values[i].priceDecimals, SCALE_DECIMALS)]

getSortedRescaledPrices(values) ==
    SortAsc([i \in 1..Len(values) |->
        rescale(values[i].price, values[i].priceDecimals, SCALE_DECIMALS)])

calculateMedianPrice(valid) ==
    [price |-> medianBigInt(getSortedRescaledPrices(valid)),
     priceDecimals |-> SCALE_DECIMALS]

\* config.ttlBySource?.[source] ?? DEFAULTS.ttl[source]
ttlOf(cfg, source) ==
    IF Has(cfg, "ttlBySource") /\ source \in DOMAIN cfg.ttlBySource
    THEN cfg.ttlBySource[source]
    ELSE DefaultTtl[source]

\* the freshness gate with `>=` for `>`
isStaleAtTtl(priceData, cfg, nowSec) ==
    nowSec - priceData.at >= ttlOf(cfg, priceData.source)

isStale(priceData, cfg, nowSec) ==
    nowSec - priceData.at > ttlOf(cfg, priceData.source)

DigitChars == <<"0", "1", "2", "3", "4", "5", "6", "7", "8", "9">>

RECURSIVE digitsOf(_)
digitsOf(n) ==
    IF n < 10 THEN <<DigitChars[n + 1]>>
    ELSE Append(digitsOf(n \div 10), DigitChars[(n % 10) + 1])

\* bigint.toString(): the decimal digits, "-" first for a negative value
toString(n) == IF n < 0 THEN <<"-">> \o digitsOf(-n) ELSE digitsOf(n)

digitValue(c) == CHOOSE d \in 0..9 : DigitChars[d + 1] = c

RECURSIVE parseDigits(_)
parseDigits(s) ==
    IF s = << >> THEN 0
    ELSE 10 * parseDigits(SubSeq(s, 1, Len(s) - 1)) + digitValue(s[Len(s)])

\* BigInt(string)
BigInt(s) == IF s[1] = "-" THEN -parseDigits(Tail(s)) ELSE parseDigits(s)

\* Math.round(epsilon * 1_000_000): the nearest integer, a half rounded up
roundedEpsilonPpm(epsilon) ==
    LET perPpm == EpsilonDenominator \div ConfidenceScale
    IN  (2 * epsilon + perPpm) \div (2 * perPpm)

RECURSIVE DivPow10(_, _)
DivPow10(x, n) == IF n = 0 THEN x ELSE DivPow10(x \div 10, n - 1)

\* the branch for a confidence that is no bigint: priceNum = toFloat(price,
\* decimals), confNum = Number(confidence), priceNum > 0 && confNum /
\* priceNum <= epsilon. In exact arithmetic the quotient test is
\* confNum * 10^decimals * EpsilonDenominator <= epsilon * price.
floatConfidenceOk(confNum, price, priceDecimals, epsilon) ==
    /\ price > 0
    /\ confNum <= DivPow10(epsilon * price, priceDecimals + EpsilonDigits)

\* meta.confidence is [bigint |-> n] or [string |-> digits]
confidenceOk(priceData, cfg) ==
    IF priceData.source = "pyth" /\ Has(priceData.meta, "confidence")
    THEN LET epsilon == IF Has(cfg, "epsilon") THEN cfg.epsilon ELSE DefaultEpsilon
             confidence == priceData.meta.confidence
         IN  IF Has(confidence, "bigint")
             THEN confidence.bigint * ConfidenceScale
                      <= priceData.price * roundedEpsilonPpm(epsilon)
             ELSE floatConfidenceOk(BigInt(confidence.string), priceData.price,
                                    priceData.priceDecimals, epsilon)
    ELSE TRUE

InSeq(x, s) == \E i \in 1..Len(s) : s[i] = x

twapOkAnyLiquidity(priceData, cfg) ==
    IF priceData.source = "uniswap_v3_twap"
    THEN LET twapWindow == IF Has(cfg, "twapWindow") THEN cfg.twapWindow ELSE 0
             allowedPools == IF Has(cfg, "allowedPools") THEN cfg.allowedPools ELSE << >>
             windowSec == IF Has(priceData.meta, "windowSec")
                          THEN priceData.meta.windowSec ELSE 0
         IN  /\ Has(priceData.meta, "poolAddress")
             /\ InSeq(priceData.meta.poolAddress, allowedPools)
             /\ windowSec >= twapWindow
    ELSE TRUE

twapOk(priceData, cfg) ==
    IF priceData.source = "uniswap_v3_twap"
    THEN LET minLiquidity == IF Has(cfg, "minLiquidity") THEN cfg.minLiquidity ELSE 0
             twapWindow == IF Has(cfg, "twapWindow") THEN cfg.twapWindow ELSE 0
             allowedPools == IF Has(cfg, "allowedPools") THEN cfg.allowedPools ELSE << >>
             liq == IF Has(priceData.meta, "harmonicMeanLiquidity")
                    THEN priceData.meta.harmonicMeanLiquidity ELSE 0
             windowSec == IF Has(priceData.meta, "windowSec")
                          THEN priceData.meta.windowSec ELSE 0
         IN  /\ Has(priceData.meta, "poolAddress")
             /\ InSeq(priceData.meta.poolAddress, allowedPools)
             /\ windowSec >= twapWindow
             /\ liq >= minLiquidity
    ELSE TRUE

isValid(priceData, cfg, nowSec) ==
    /\ ~isStale(priceData, cfg, nowSec)
    /\ confidenceOk(priceData, cfg)
    /\ twapOk(priceData, cfg)

\* candidates.filter((price) => this.isValid(price, tokenConfig))
RECURSIVE validate(_, _, _)
validate(candidates, cfg, nowSec) ==
    IF candidates = << >> THEN << >>
    ELSE (IF isValid(Head(candidates), cfg, nowSec) THEN <<Head(candidates)>> ELSE << >>)
         \o validate(Tail(candidates), cfg, nowSec)

\* |price - median| * 10_000 / median, 0 when the median is 0
relativeDeviationBps(price, medianPrice) ==
    IF medianPrice = 0 THEN 0
    ELSE TruncDiv(Abs(price - medianPrice) * BpsDenominator, medianPrice)

\* a divergence check that drops the quotes it would warn about
checkDivergenceRejects(valid, cfg) ==
    IF Len(valid) < 2 THEN [valid |-> valid, warned |-> {}]
    ELSE LET medianPrice == medianBigInt(getSortedRescaledPrices(valid))
             maxAllowedDeviationBps ==
                 IF Has(cfg, "deltaBps") THEN cfg.deltaBps ELSE DefaultDeltaBps
             bad(v) == relativeDeviationBps(
                           rescale(v.price, v.priceDecimals, SCALE_DECIMALS),
                           medianPrice) > maxAllowedDeviationBps
         IN  [valid |-> SelectSeq(valid, LAMBDA v : ~bad(v)),
              warned |-> {i \in 1..Len(valid) : bad(valid[i])}]

\* checkDivergence returns nothing and leaves `valid` as it is; `warned` is
\* the set of quotes whose (commented out) warning it would log.
checkDivergence(valid, cfg) ==
    IF Len(valid) < 2 THEN [valid |-> valid, warned |-> {}]
    ELSE LET medianPrice == medianBigInt(getSortedRescaledPrices(valid))
             maxAllowedDeviationBps ==
                 IF Has(cfg, "deltaBps") THEN cfg.deltaBps ELSE DefaultDeltaBps
         IN  [valid |-> valid,
              warned |-> {i \in 1..Len(valid) :
                             relativeDeviationBps(
                                 rescale(valid[i].price, valid[i].priceDecimals,
                                         SCALE_DECIMALS),
                                 medianPrice) > maxAllowedDeviationBps}]

\* an audit trail that is left empty
sourcesUsedEmpty(validated) == << >>

\* validated.map(({source, price, priceDecimals, at}) => ({...}))
sourcesUsedOf(validated) ==
    [i \in 1..Len(validated) |->
        [source |-> validated[i].source, price |-> validated[i].price,
         priceDecimals |-> validated[i].priceDecimals, at |-> validated[i].at]]

\* a consolidation that takes the median branch for a single quote as well
consolidateAllNormal(validated, cfg, nowSec) ==
    [source |-> "nexo", price |-> calculateMedianPrice(validated).price,
     priceDecimals |-> calculateMedianPrice(validated).priceDecimals,
     at |-> nowSec, mode |-> "normal", sourcesUsed |-> sourcesUsedOf(validated)]

\* getConsolidatedPrice from checkDivergence on, for one or more valid quotes
consolidate(validated, cfg, nowSec) ==
    LET valid == checkDivergence(validated, cfg).valid
    IN  IF Len(valid) = 1
        THEN [source |-> "nexo", price |-> valid[1].price,
              priceDecimals |-> valid[1].priceDecimals, at |-> nowSec,
              mode |-> "degraded", sourcesUsed |-> sourcesUsedOf(valid)]
        ELSE [source |-> "nexo", price |-> calculateMedianPrice(valid).price,
              priceDecimals |-> calculateMedianPrice(valid).priceDecimals,
              at |-> nowSec, mode |-> "normal",
              sourcesUsed |-> sourcesUsedOf(valid)]

\* the frozen branch: {...last, source: 'nexo', mode: 'frozen', sourcesUsed: []}
frozenOf(last) ==
    [source |-> "nexo", price |-> last.price, priceDecimals |-> last.priceDecimals,
     at |-> last.at, mode |-> "frozen", sourcesUsed |-> << >>]

----------------------------------------------------------------------------
(* DatabaseLastGoodStore over table last_good_store: lastGoodStore is the  *)
(* rows in insertion order, the id of a row being its position            *)

\* a configured token as clients spell it, and one without a TokenConfig
Tokens == {"eth", "XYZ"}

toUpperCase(token) == IF token = "eth" THEN "ETH" ELSE token

\* the column values putLastGood writes
rowOf(token, priceData) ==
    [token |-> toUpperCase(token), price |-> toString(priceData.price),
     priceDecimals |-> priceData.priceDecimals, at |-> priceData.at,
     source |-> priceData.source]

mapToPriceData(dbRecord) ==
    [source |-> "nexo", price |-> BigInt(dbRecord.price),
     priceDecimals |-> dbRecord.priceDecimals, at |-> dbRecord.at,
     mode |-> "normal",
     sourcesUsed |-> <<[source |-> dbRecord.source, price |-> BigInt(dbRecord.price),
                        priceDecimals |-> dbRecord.priceDecimals, at |-> dbRecord.at]>>]

\* the ids of the rows WHERE token = token.toUpperCase()
rowIdsOf(token) ==
    {i \in 1..Len(lastGoodStore) : lastGoodStore[i].token = toUpperCase(token)}

hasLastGood(token) == rowIdsOf(token) # {}

\* findOne: the first row that matches
findOne(token) == CHOOSE i \in rowIdsOf(token) : \A j \in rowIdsOf(token) : i <= j

getLastGood(token) == mapToPriceData(lastGoodStore[findOne(token)])

createAllowedNoUnique(table, row) == TRUE

\* indexes: [{unique: true, fields: ['token']}]
createAllowed(table, row) == \A i \in 1..Len(table) : table[i].token # row.token

\* the columns record.update sets
setColumns(row, priceData) ==
    [row EXCEPT !.price = toString(priceData.price),
                !.priceDecimals = priceData.priceDecimals,
                !.at = priceData.at, !.source = priceData.source]

recordUpdateEveryRow(table, id, priceData) ==
    [i \in 1..Len(table) |-> setColumns(table[i], priceData)]

\* record.update(values): UPDATE ... WHERE id = record.id
recordUpdate(table, id, priceData) ==
    [table EXCEPT ![id] = setColumns(table[id], priceData)]

\* the table when the service starts (sync({force: false}) keeps the rows):
\* the row an earlier process left for another token, none for the token
\* that is asked for
SeededTable ==
    <<[token |-> "BTC", price |-> toString(300), priceDecimals |-> SCALE_DECIMALS,
       at |-> 0, source |-> "nexo"]>>

----------------------------------------------------------------------------
(* Token configurations and adapter answers *)

\* token_configs as seeded: one configured token, thresholds of the tests
TokenConfigTable ==
    [ETH |-> [symbol |-> "ETH", minLiquidity |-> 1000, twapWindow |-> 3600,
              allowedPools |-> <<"0xPool">>,
              ttlBySource |-> [chainlink |-> 300, pyth |-> 30,
                               uniswap_v3_twap |-> 1800, api3 |-> 300],
              epsilon |-> 100000, deltaBps |-> 150]]

hasTokenConfig(token) == toUpperCase(token) \in DOMAIN TokenConfigTable

getTokenConfig(token) == TokenConfigTable[toUpperCase(token)]

Miss == [kind |-> "miss"]
Throw == [kind |-> "throw"]
Ok(data) == [kind |-> "ok", data |-> data]

NoMeta == [none |-> TRUE]

Quote(source, price, priceDecimals, at, meta) ==
    [source |-> source, price |-> price, priceDecimals |-> priceDecimals,
     at |-> at, meta |-> meta]

\* $2000 as Chainlink reports it, fresh or one second past its ttl
ChainlinkAnswers(nowSec) ==
    {Throw,
     Ok(Quote("chainlink", 20, 17, nowSec, NoMeta)),
     Ok(Quote("chainlink", 20, 17, nowSec - 301, NoMeta))}

\* $1990 as Pyth reports it, with a confidence of 0.5% or of 1.5%
PythAnswers(nowSec) ==
    {Throw,
     Ok(Quote("pyth", 199, 18, nowSec, [confidence |-> [bigint |-> 1]])),
     Ok(Quote("pyth", 199, 18, nowSec, [confidence |-> [bigint |-> 3]]))}

\* $2010 as the TWAP adapter reports it over the whole window, or no answer
UniswapAnswers(nowSec) ==
    {Miss,
     Ok(Quote("uniswap_v3_twap", 2010, 19, nowSec,
              [poolAddress |-> "0xPool", windowSec |-> 3600,
               harmonicMeanLiquidity |-> 2000]))}

\* the answers of the adapters to one run: one of Chainlink, one of Pyth,
\* one of the TWAP adapter per pool
Responses(nowSec) ==
    [chainlink : ChainlinkAnswers(nowSec), pyth : PythAnswers(nowSec),
     uniswap_v3_twap : [{"0xPool"} -> UniswapAnswers(nowSec)]]

\* without a TokenConfig the run rejects before any adapter is called
AnswersFor(token, nowSec) ==
    IF hasTokenConfig(token) THEN Responses(nowSec)
    ELSE {[chainlink |-> Miss, pyth |-> Throw,
           uniswap_v3_twap |-> [pool \in {"0xPool"} |-> Miss]]}

pushed(response) == IF response.kind = "ok" THEN <<response.data>> ELSE << >>

\* a loop over config.allowedPools without the break
RECURSIVE everyPool(_, _)
everyPool(pools, answers) ==
    IF pools = << >> THEN << >>
    ELSE pushed(answers[Head(pools)]) \o everyPool(Tail(pools), answers)

\* the loop over config.allowedPools: the first pool that answers is used
RECURSIVE firstPool(_, _)
firstPool(pools, answers) ==
    IF pools = << >> THEN << >>
    ELSE IF answers[Head(pools)].kind = "ok" THEN <<answers[Head(pools)].data>>
    ELSE firstPool(Tail(pools), answers)

\* the pools the loop calls uniswapV3Oracle.getPrice for, in the order of
\* the calls: each pool up to the one whose answer makes the loop break
RECURSIVE poolsTried(_, _)
poolsTried(pools, answers) ==
    IF pools = << >> THEN << >>
    ELSE IF answers[Head(pools)].kind = "ok" THEN <<Head(pools)>>
    ELSE <<Head(pools)>> \o poolsTried(Tail(pools), answers)

\* the calls of the TWAP adapter that gatherOraclePrices makes
poolsQueried(responses, cfg) ==
    IF Has(cfg, "allowedPools") /\ Len(cfg.allowedPools) > 0
       /\ Has(cfg, "twapWindow") /\ cfg.twapWindow # 0
    THEN poolsTried(cfg.allowedPools, responses.uniswap_v3_twap)
    ELSE << >>

\* gatherOraclePrices without its try/catch: a throwing adapter rejects
gatherOraclePricesUncaught(responses, cfg) ==
    [failed |-> \/ responses.chainlink.kind = "throw"
                \/ responses.pyth.kind = "throw"
                \/ \E pool \in DOMAIN responses.uniswap_v3_twap :
                       responses.uniswap_v3_twap[pool].kind = "throw",
     out |-> pushed(responses.chainlink) \o pushed(responses.pyth)
             \o (IF Has(cfg, "allowedPools") /\ Len(cfg.allowedPools) > 0
                    /\ Has(cfg, "twapWindow") /\ cfg.twapWindow # 0
                 THEN firstPool(cfg.allowedPools, responses.uniswap_v3_twap)
                 ELSE << >>)]

\* gatherOraclePrices: every adapter call sits in its own try/catch, so the
\* function never rejects (`failed` is what an escaping exception would be)
gatherOraclePrices(responses, cfg) ==
    [failed |-> FALSE,
     out |-> pushed(responses.chainlink) \o pushed(responses.pyth)
             \o (IF Has(cfg, "allowedPools") /\ Len(cfg.allowedPools) > 0
                    /\ Has(cfg, "twapWindow") /\ cfg.twapWindow # 0
                 THEN firstPool(cfg.allowedPools, responses.uniswap_v3_twap)
                 ELSE << >>)]

----------------------------------------------------------------------------
(* Request slots of GET /price/:token *)

MaxOracleNow == 1     \* the oracle's clock stops advancing here (s)

Requests == {"a1", "a2"}

NoPrice == [mode |-> "none"]

IdleAgg ==
    [pc |-> "idle", token |-> "", validated |-> << >>, price |-> NoPrice,
     record |-> 0, out |-> "none"]

Busy(p) == agg[p].pc \notin {"idle", "done"}

NoConfig == [symbol |-> "none"]

NoVerdict == [stage |-> "none"]

InitBalancer ==
    /\ intents = << >>
    /\ chain = << >>
    /\ now = 0
    /\ run = [p \in Procs |-> IdleRun]
    /\ fired = << >>
    /\ msgCount = 0
    /\ repoCalls = 0
    /\ repoOut = NoCall

InitStore ==
    /\ lastGoodStore = SeededTable
    /\ agg = [p \in Requests |-> IdleAgg]

InitOracle ==
    /\ InitStore
    /\ oracleNow = 0
    /\ quotes = << >>
    /\ config = NoConfig
    /\ verdict = NoVerdict

----------------------------------------------------------------------------
(* The wallet balancer's runs *)

NoEvaluation == [state |-> "none"]

InitEval == evaluation = NoEvaluation

\* `new WalletBalancerService(config, triggerRepo, transferIntentRepo)`
Constructed ==
    [isRunning |-> FALSE, starting |-> 0, emitted |-> << >>, calls |-> 0,
     lastCall |-> "none"]

\* the service once `await service.start()` has returned
Started ==
    [isRunning |-> TRUE, starting |-> 0, emitted |-> <<"started">>, calls |-> 1,
     lastCall |-> "start"]

\* the runs of the balancer begin with the service started and the table
\* answering
InitService == service = Started /\ lookup = "rows"

Init == InitBalancer /\ InitOracle /\ InitEval /\ InitService

Tick ==
    /\ now < MaxNow
    /\ now' = now + TickMs
    /\ UNCHANGED <<intents, chain, run, fired, msgCount, repoCalls, repoOut,
                 oracleVars, evaluation, serviceVars>>

\* a service that takes itself for running at all times
isRunningAlways == TRUE

\* this.isRunning
isRunning == service.isRunning

\* WalletBalancerService.processPriceMessage up to executeTransfers: the
\* test of isRunning, the trigger lookup, the balance read and
\* evaluateTriggers, whose only read of shared state is getIntentsByStatus.
processPriceMessage(p, msg, currentBalance) ==
    /\ Free(p)
    /\ msgCount < MaxMsgs
    /\ LET priceMsg == [price |-> msg.price, priceDecimals |-> msg.priceDecimals,
                        at |-> now]
           triggers == getEnabledTriggersByTokenChain(msg.token)
           signals == IF triggers = << >> THEN << >>
                      ELSE evaluateTriggers(triggers, priceMsg, currentBalance)
       IN  IF ~isRunning
           THEN /\ run' = [run EXCEPT ![p] = Begin(<< >>, "notrunning")]
                /\ UNCHANGED fired
           ELSE /\ run' = [run EXCEPT ![p] = Begin(signals, "nosignal")]
                /\ fired' = fired \o signals
    /\ msgCount' = msgCount + 1
    /\ UNCHANGED <<intents, chain, now, repoCalls, repoOut,
                 oracleVars, evaluation, serviceVars>>

\* The same TriggerSignal handed to the engine again (redelivery, or replay
\* after a restart).
replaySignal(p, i) ==
    /\ Free(p)
    /\ run' = [run EXCEPT ![p] = Begin(<<fired[i]>>, "nosignal")]
    /\ UNCHANGED <<intents, chain, now, fired, msgCount, repoCalls, repoOut,
                 oracleVars, evaluation, serviceVars>>

\* WalletBalancerService.executeTransfer and EOAExecutionEngine.executeTransfer
\* through `await findByIdempotencyKey`.
executeTransfer(p) ==
    /\ InFlight(p) /\ run[p].pc = "find"
    /\ run' = [run EXCEPT ![p] =
          IF ~(run[p].signal.executionMode = "EOA" /\ isAvailable)
          THEN Return(p, "unavailable")
          ELSE IF findByIdempotencyKey(KeyOf(p)) # {}
          THEN [Return(p, "existing") EXCEPT !.found =
                   intents[CHOOSE i \in findByIdempotencyKey(KeyOf(p)) : TRUE].status]
          ELSE [run[p] EXCEPT !.pc = "insert"]]
    /\ UNCHANGED <<intents, chain, now, fired, msgCount, repoCalls, repoOut,
                 oracleVars, evaluation, serviceVars>>

\* `await this.transferIntentRepo.insertPlanned(intent)`; a unique-index
\* violation throws into the catch of executeTransfer.
storePlanned(p) ==
    /\ InFlight(p) /\ run[p].pc = "insert"
    /\ IF insertAllowed(KeyOf(p))
       THEN /\ intents' = insertPlanned(
                   [idempotencyKey |-> KeyOf(p),
                    triggerId |-> run[p].signal.triggerId,
                    amount |-> run[p].signal.amount,
                    status |-> "PLANNED",
                    txHash |-> NoTx,
                    createdAt |-> now])
            /\ run' = [run EXCEPT ![p].pc = "submit"]
       ELSE /\ run' = [run EXCEPT ![p] = Return(p, "conflict")]
            /\ UNCHANGED intents
    /\ UNCHANGED <<chain, now, fired, msgCount, repoCalls, repoOut,
                 oracleVars, evaluation, serviceVars>>

\* `await this.submitTransfer(signal)`: signer.sendTransaction resolves with
\* the hash of the broadcast transaction or rejects.
submitTransfer(p, outcome) ==
    /\ InFlight(p) /\ run[p].pc = "submit"
    /\ IF outcome = "ok"
       THEN /\ chain' = Append(chain, [hash |-> Len(chain) + 1, key |-> KeyOf(p)])
            /\ run' = [run EXCEPT ![p].pc = "persist", ![p].txHash = Len(chain) + 1]
       ELSE /\ run' = [run EXCEPT ![p] = Return(p, outcome)]
            /\ UNCHANGED chain
    /\ UNCHANGED <<intents, now, fired, msgCount, repoCalls, repoOut,
                 oracleVars, evaluation, serviceVars>>

\* `await updateStatus(idempotencyKey, 'SUBMITTED', txHash)`
persistSubmitted(p) ==
    /\ InFlight(p) /\ run[p].pc = "persist"
    /\ IF RowsOf(KeyOf(p)) = {}
       THEN /\ run' = [run EXCEPT ![p] = Return(p, "notfound")]
            /\ UNCHANGED intents
       ELSE /\ intents' = updateStatus(KeyOf(p), "SUBMITTED", run[p].txHash)
            /\ run' = [run EXCEPT ![p].pc = "wait"]
    /\ UNCHANGED <<chain, now, fired, msgCount, repoCalls, repoOut,
                 oracleVars, evaluation, serviceVars>>

\* `await this.provider.waitForTransaction(txHash, 1)`
waitForTransaction(p, receipt) ==
    /\ InFlight(p) /\ run[p].pc = "wait"
    /\ run' = [run EXCEPT ![p] =
          IF receipt = "error" THEN Return(p, "waiterror")
          ELSE [run[p] EXCEPT !.pc = "confirm", !.receipt = receipt]]
    /\ UNCHANGED <<intents, chain, now, fired, msgCount, repoCalls, repoOut,
                 oracleVars, evaluation, serviceVars>>

\* the test written as `receipt?.status !== 0`
receiptStatusNotZero(receipt) ==
    IF receipt = "reverted" THEN "MINED_FAILED" ELSE "MINED_SUCCESS"

\* receipt?.status === 1
receiptStatus(receipt) ==
    IF receipt = "success" THEN "MINED_SUCCESS" ELSE "MINED_FAILED"

\* `await updateStatus(idempotencyKey, 'MINED_SUCCESS' | 'MINED_FAILED', txHash)`
persistMined(p) ==
    /\ InFlight(p) /\ run[p].pc = "confirm"
    /\ IF RowsOf(KeyOf(p)) = {}
       THEN /\ run' = [run EXCEPT ![p] = Return(p, "notfound")]
            /\ UNCHANGED intents
       ELSE /\ intents' = updateStatus(KeyOf(p), receiptStatus(run[p].receipt),
                                       run[p].txHash)
            /\ run' = [run EXCEPT ![p] = Return(p, "completed")]
    /\ UNCHANGED <<chain, now, fired, msgCount, repoCalls, repoOut,
                 oracleVars, evaluation, serviceVars>>

\* The process stops: every call in flight is cut where it stands and what
\* finished calls returned is gone; the table and the chain keep what they
\* hold.
Crash ==
    /\ \E p \in Procs : InFlight(p)
    /\ run' = [p \in Procs |->
                  IF InFlight(p) THEN [run[p] EXCEPT !.alive = FALSE]
                  ELSE IF run[p].alive THEN IdleRun
                  ELSE run[p]]
    /\ UNCHANGED <<intents, chain, now, fired, msgCount, repoCalls, repoOut,
                 oracleVars, evaluation, serviceVars>>

Next ==
    \/ Tick
    \/ \E p \in Procs, m \in PriceMsgs, b \in Balances : processPriceMessage(p, m, b)
    \/ \E p \in Procs, i \in 1..Len(fired) : replaySignal(p, i)
    \/ \E p \in Procs : executeTransfer(p)
    \/ \E p \in Procs : storePlanned(p)
    \/ \E p \in Procs, o \in {"ok", "transient", "terminal"} : submitTransfer(p, o)
    \/ \E p \in Procs : persistSubmitted(p)
    \/ \E p \in Procs, r \in {"success", "reverted", "null", "error"} :
           waitForTransaction(p, r)
    \/ \E p \in Procs : persistMined(p)
    \/ Crash

Spec == Init /\ [][Next]_vars

----------------------------------------------------------------------------
(* The repository called directly, next to the service: updateStatus is a   *)
(* public method that tests and operators call with any status.             *)

updateStatusCall(key, status, txHash) ==
    /\ repoCalls < MaxRepoCalls
    /\ RowsOf(key) # {}
    /\ intents' = updateStatus(key, status, txHash)
    /\ repoCalls' = repoCalls + 1
    /\ repoOut' = [op |-> "updateStatus", key |-> key, result |-> "ok"]
    /\ UNCHANGED <<chain, now, run, fired, msgCount,
                 oracleVars, evaluation, serviceVars>>

NextRepo ==
    \/ Next
    \/ \E i \in 1..Len(intents), st \in TransferIntentStatus,
          h \in {NoTx} \cup {chain[c].hash : c \in 1..Len(chain)} :
           updateStatusCall(intents[i].idempotencyKey, st, h)

SpecRepo == Init /\ [][NextRepo]_vars

\* insertPlanned called directly, as the tests do, with the key of a signal
\* that was fired and an amount of the caller's choice.
insertPlannedCall(intent) ==
    /\ repoCalls < MaxRepoCalls
    /\ IF insertAllowed(intent.idempotencyKey)
       THEN /\ intents' = insertPlanned(intent)
            /\ repoOut' = [op |-> "insertPlanned", key |-> intent.idempotencyKey,
                           result |-> "ok"]
       ELSE /\ UNCHANGED intents
            /\ repoOut' = [op |-> "insertPlanned", key |-> intent.idempotencyKey,
                           result |-> "error"]
    /\ repoCalls' = repoCalls + 1
    /\ UNCHANGED <<chain, now, run, fired, msgCount,
                 oracleVars, evaluation, serviceVars>>

NextInsert ==
    \/ Next
    \/ \E i \in 1..Len(fired), extra \in {0, 1} :
           insertPlannedCall(
               [idempotencyKey |-> generateIdempotencyKey(fired[i]),
                triggerId |-> fired[i].triggerId,
                amount |-> fired[i].amount + extra,
                status |-> "PLANNED",
                txHash |-> NoTx,
                createdAt |-> now])

SpecInsert == Init /\ [][NextInsert]_vars

----------------------------------------------------------------------------
(* PriceOracleAggregator.getConsolidatedPrice behind GET /price/:token.    *)
(* Requests overlap; a run is cut at the awaited calls of the last-good    *)
(* store. The store answers every call.                                    *)

Finish(p, token, out) ==
    [agg EXCEPT ![p] = [IdleAgg EXCEPT !.pc = "done", !.token = token, !.out = out]]

OracleTick ==
    /\ oracleNow < MaxOracleNow
    /\ oracleNow' = oracleNow + 1
    /\ UNCHANGED <<balancerVars, evaluation, serviceVars,
                   lastGoodStore, agg, quotes, config, verdict>>

\* getTokenConfig, gatherOraclePrices, the filter by isValid and, for one or
\* more valid quotes, the ConsolidatedPrice built from them
getConsolidatedPrice(p, token, responses) ==
    /\ ~Busy(p)
    /\ IF ~hasTokenConfig(token)
       THEN agg' = Finish(p, token, "noConfig")
       ELSE LET cfg == getTokenConfig(token)
                gathered == gatherOraclePrices(responses, cfg)
                validated == validate(gathered.out, cfg, oracleNow)
            IN  IF gathered.failed
                THEN agg' = Finish(p, token, "adapterError")
                ELSE IF validated = << >>
                THEN agg' = [agg EXCEPT ![p] =
                                [IdleAgg EXCEPT !.pc = "getLastGood", !.token = token]]
                ELSE agg' = [agg EXCEPT ![p] =
                                [IdleAgg EXCEPT !.pc = "putLastGood", !.token = token,
                                    !.validated = validated,
                                    !.price = consolidate(validated, cfg, oracleNow)]]
    /\ UNCHANGED <<balancerVars, evaluation, serviceVars,
                   lastGoodStore, oracleNow, quotes, config, verdict>>

\* `await this.lastGoodStore.getLastGood(token)` of the frozen branch
readLastGood(p) ==
    /\ agg[p].pc = "getLastGood"
    /\ IF hasLastGood(agg[p].token)
       THEN agg' = [agg EXCEPT ![p].pc = "putLastGood",
                               ![p].price = frozenOf(getLastGood(agg[p].token))]
       ELSE agg' = Finish(p, agg[p].token, "noLastGood")
    /\ UNCHANGED <<balancerVars, evaluation, serviceVars,
                   lastGoodStore, oracleNow, quotes, config, verdict>>

\* putLastGood, findOrCreate: the SELECT for the token
findOrCreate(p) ==
    /\ agg[p].pc = "putLastGood"
    /\ IF hasLastGood(agg[p].token)
       THEN agg' = [agg EXCEPT ![p].pc = "update", ![p].record = findOne(agg[p].token)]
       ELSE agg' = [agg EXCEPT ![p].pc = "create"]
    /\ UNCHANGED <<balancerVars, evaluation, serviceVars,
                   lastGoodStore, oracleNow, quotes, config, verdict>>

\* putLastGood, findOrCreate: the INSERT of the defaults, after which the
\* run returns; on a unique constraint error findOrCreate reads the row
\* that another call created and hands it over with created = false
createRecord(p) ==
    /\ agg[p].pc = "create"
    /\ IF createAllowed(lastGoodStore, rowOf(agg[p].token, agg[p].price))
       THEN /\ lastGoodStore' = Append(lastGoodStore, rowOf(agg[p].token, agg[p].price))
            /\ agg' = [agg EXCEPT ![p].pc = "done", ![p].out = "ok"]
       ELSE /\ UNCHANGED lastGoodStore
            /\ IF hasLastGood(agg[p].token)
               THEN agg' = [agg EXCEPT ![p].pc = "update",
                                       ![p].record = findOne(agg[p].token)]
               ELSE agg' = Finish(p, agg[p].token, "storeError")
    /\ UNCHANGED <<balancerVars, evaluation, serviceVars,
                   oracleNow, quotes, config, verdict>>

\* putLastGood, `if (!created) await record.update(...)`, after which the
\* run returns
updateRecord(p) ==
    /\ agg[p].pc = "update"
    /\ lastGoodStore' = recordUpdate(lastGoodStore, agg[p].record, agg[p].price)
    /\ agg' = [agg EXCEPT ![p].pc = "done", ![p].out = "ok"]
    /\ UNCHANGED <<balancerVars, evaluation, serviceVars,
                   oracleNow, quotes, config, verdict>>

NextAgg ==
    \/ OracleTick
    \/ \E p \in Requests, token \in Tokens :
           \E responses \in AnswersFor(token, oracleNow) :
               getConsolidatedPrice(p, token, responses)
    \/ \E p \in Requests : readLastGood(p)
    \/ \E p \in Requests : findOrCreate(p)
    \/ \E p \in Requests : createRecord(p)
    \/ \E p \in Requests : updateRecord(p)

SpecAgg == Init /\ [][NextAgg]_vars


----------------------------------------------------------------------------
(* Properties *)

Terminal == {"MINED_SUCCESS", "MINED_FAILED"}
NonTerminal == {"PLANNED", "PROPOSED", "SUBMITTED"}

Broadcasts(key) == {c \in 1..Len(chain) : chain[c].key = key}

EngineOutcomes ==
    {"existing", "conflict", "transient", "terminal", "waiterror", "completed"}

Returned(p) == run[p].alive /\ run[p].pc = "done"

Cut(p) == ~run[p].alive

\* C1: however many calls carry the same TriggerSignal, one after another or
\* interleaved, the table holds at most one row per idempotency key and
\* exactly one once a call has returned, and at most one transaction is
\* broadcast for the key.
C1_Idempotent ==
    /\ \A i \in 1..Len(fired) :
          LET key == generateIdempotencyKey(fired[i])
          IN  /\ Cardinality(RowsOf(key)) <= 1
              /\ Cardinality(Broadcasts(key)) <= 1
    /\ \A p \in Procs :
          Returned(p) /\ run[p].out \in EngineOutcomes
              => Cardinality(RowsOf(KeyOf(p))) = 1

\* two interleaved calls with one signal have both returned: one ran to the
\* receipt, the other hit the unique index
C1_Witness ==
    \E p, q \in Procs :
        /\ p # q
        /\ Returned(p) /\ Returned(q)
        /\ run[p].out = "completed" /\ run[q].out = "conflict"
        /\ KeyOf(p) = KeyOf(q)
        /\ Cardinality(Broadcasts(KeyOf(p))) = 1

StatusGraph ==
    {<<"PLANNED", "PROPOSED">>, <<"PLANNED", "SUBMITTED">>,
     <<"PROPOSED", "SUBMITTED">>,
     <<"SUBMITTED", "MINED_SUCCESS">>, <<"SUBMITTED", "MINED_FAILED">>}

\* C2: the status of an intent only ever moves along an edge of the graph
\* PLANNED -> (PROPOSED ->) SUBMITTED -> MINED_SUCCESS | MINED_FAILED, so it
\* never moves backward and never leaves a terminal status.
C2_MonotoneStatus ==
    [][\A i \in 1..Len(intents) :
          \/ intents'[i].status = intents[i].status
          \/ <<intents[i].status, intents'[i].status>> \in StatusGraph]_vars

cooldownSecOf(triggerId) ==
    TriggerTable[CHOOSE n \in 1..Len(TriggerTable) : TriggerTable[n].id = triggerId].cooldownSec

\* C3: when evaluateTrigger yields a signal for a trigger, every earlier
\* signal of that trigger whose intent is in the table, in whatever status,
\* fired at least cooldownSec before: nothing fires in [t, t + cooldownSec).
C3_CooldownHonored ==
    [][\A j \in Len(fired) + 1..Len(fired') : \A i \in 1..Len(fired) :
          /\ fired[i].triggerId = fired'[j].triggerId
          /\ RowsOf(generateIdempotencyKey(fired[i])) # {}
          => fired'[j].timestamp - fired[i].timestamp
                >= cooldownSecOf(fired[i].triggerId) * MsPerSec]_vars

\* C4: a trigger never has more than one intent in a non-terminal status.
C4_OneInFlightPerTrigger ==
    \A n \in 1..Len(TriggerTable) :
        Cardinality({i \in 1..Len(intents) :
                        /\ intents[i].triggerId = TriggerTable[n].id
                        /\ intents[i].status \in NonTerminal}) <= 1

\* C5: when the process stopped after SUBMITTED was persisted and the same
\* signal has been replayed since, the replay has added no row and has
\* reconciled the existing row to MINED_SUCCESS or MINED_FAILED.
C5_ReplayReconcilesSubmitted ==
    \A p, q \in Procs :
        /\ Cut(p) /\ run[p].pc \in {"wait", "confirm"}
        /\ Returned(q) /\ run[q].out \in EngineOutcomes
        /\ KeyOf(q) = KeyOf(p)
        => /\ Cardinality(RowsOf(KeyOf(p))) = 1
           /\ \A i \in RowsOf(KeyOf(p)) : intents[i].status \in Terminal

\* C6: when the process stopped after the PLANNED insert and before the
\* txHash was persisted, and the same signal has been replayed since, the
\* intent has left PLANNED and the transfer was broadcast at most once.
C6_ReplayRecoversPlanned ==
    \A p, q \in Procs :
        /\ Cut(p) /\ run[p].pc \in {"submit", "persist"}
        /\ Returned(q) /\ run[q].out \in EngineOutcomes
        /\ KeyOf(q) = KeyOf(p)
        => /\ \A i \in RowsOf(KeyOf(p)) : intents[i].status # "PLANNED"
           /\ Cardinality(Broadcasts(KeyOf(p))) <= 1

\* C7: a call that waits for the receipt, or was stopped while waiting, has
\* its row at SUBMITTED with the txHash of its broadcast; and a terminal
\* status is only ever written over SUBMITTED with a txHash.
C7_SubmittedBeforeWait ==
    /\ [](\A p \in Procs :
            run[p].pc \in {"wait", "confirm"}
                => /\ run[p].txHash # NoTx
                   /\ \E i \in RowsOf(KeyOf(p)) :
                         /\ intents[i].status = "SUBMITTED"
                         /\ intents[i].txHash = run[p].txHash)
    /\ [][\A i \in 1..Len(intents) :
            intents'[i].status \in Terminal /\ intents[i].status \notin Terminal
                => intents[i].status = "SUBMITTED" /\ intents[i].txHash # NoTx]_vars

\* the process stopped while a call was waiting for the receipt
C7_Witness ==
    \E p \in Procs :
        /\ Cut(p) /\ run[p].pc = "wait"
        /\ \E i \in RowsOf(KeyOf(p)) :
              intents[i].status = "SUBMITTED" /\ intents[i].txHash = run[p].txHash

\* C8: a call whose broadcast failed with a terminal error returns with its
\* intent marked MINED_FAILED.
C8_TerminalErrorMarksFailed ==
    \A p \in Procs :
        Returned(p) /\ run[p].out = "terminal"
            => \A i \in RowsOf(KeyOf(p)) : intents[i].status = "MINED_FAILED"

\* C9: a call whose broadcast failed with a transient error keeps retrying
\* for the same intent: it does not return while the intent is still PLANNED.
C9_TransientErrorRetried ==
    \A p \in Procs :
        Returned(p) /\ run[p].out = "transient"
            => \A i \in RowsOf(KeyOf(p)) : intents[i].status # "PLANNED"

\* C10: a SUBMITTED intent changes status only when its call handles the
\* receipt: to MINED_SUCCESS when the receipt reports success and to
\* MINED_FAILED for a failed or missing receipt, keeping the txHash recorded
\* at SUBMITTED; and a call that handled a receipt leaves the intent terminal.
C10_ReceiptDecides ==
    /\ [][\A i \in 1..Len(intents) :
            intents[i].status = "SUBMITTED" /\ intents'[i].status # "SUBMITTED"
                => \E p \in Procs :
                      /\ InFlight(p) /\ run[p].pc = "confirm"
                      /\ KeyOf(p) = intents[i].idempotencyKey
                      /\ run[p].receipt = "success"
                            => intents'[i].status = "MINED_SUCCESS"
                      /\ run[p].receipt # "success"
                            => intents'[i].status = "MINED_FAILED"
                      /\ intents'[i].txHash = intents[i].txHash]_vars
    /\ [](\A p \in Procs :
            Returned(p) /\ run[p].out = "completed"
                => \A i \in RowsOf(KeyOf(p)) :
                      /\ run[p].receipt = "success" <=> intents[i].status = "MINED_SUCCESS"
                      /\ run[p].receipt # "success" <=> intents[i].status = "MINED_FAILED")

\* a receipt wait that returned no receipt has been handled
C10_Witness ==
    \E p \in Procs :
        /\ Returned(p) /\ run[p].out = "completed" /\ run[p].receipt = "null"
        /\ \E i \in RowsOf(KeyOf(p)) :
              intents[i].status = "MINED_FAILED" /\ intents[i].txHash # NoTx

\* C11: insertPlanned with an idempotencyKey that is already in the table
\* fails with an error and leaves the table as it was (same rows, same
\* fields), so no two rows ever share an idempotencyKey.
C11_DuplicateInsertRejected ==
    /\ [](\A i, j \in 1..Len(intents) :
              intents[i].idempotencyKey = intents[j].idempotencyKey => i = j)
    /\ [][(/\ repoCalls' = repoCalls + 1
           /\ repoOut'.op = "insertPlanned"
           /\ RowsOf(repoOut'.key) # {})
          => (repoOut'.result = "error" /\ intents' = intents)]_vars

C11_Witness ==
    /\ repoOut.op = "insertPlanned"
    /\ repoOut.result = "error"
    /\ \E i \in 1..Len(intents) :
           /\ intents[i].idempotencyKey = repoOut.key
           /\ intents[i].status # "PLANNED"

----------------------------------------------------------------------------
(* The aggregation functions of PriceOracleAggregator applied to quotes:   *)
(* isValid as the filter of getConsolidatedPrice, then checkDivergence and *)
(* the degraded / median branch, for quotes in any order of delivery.      *)

MaxQuotes == 3        \* quotes handed over at once

\* configurations: every ttl and threshold spelled out; a ttl override for
\* Chainlink alone with deltaBps 0 and an epsilon of 0.0050257, of which
\* epsilon * 1_000_000 is no integer; no ttlBySource and no thresholds at all
Configs ==
    {TokenConfigTable.ETH,
     [symbol |-> "ARB", minLiquidity |-> 1000, twapWindow |-> 3600,
      allowedPools |-> <<"0xPool">>, ttlBySource |-> [chainlink |-> 60],
      epsilon |-> 50257, deltaBps |-> 0],
     [symbol |-> "OP", allowedPools |-> <<"0xPool">>]}

TwapMeta(windowSec) ==
    [poolAddress |-> "0xPool", windowSec |-> windowSec, harmonicMeanLiquidity |-> 2000]

\* the meta of a TWAP read from a pool with the liquidity given
PoolMeta(poolAddress, liq) ==
    [poolAddress |-> poolAddress, windowSec |-> 3600, harmonicMeanLiquidity |-> liq]

\* what each source may report: ages at and one second past the ttls in
\* use, prices around $2000 at 17, 18 and 19 decimals, one negative answer;
\* a Pyth confidence as a bigint, as the string of the production adapter,
\* or left out; a TWAP from a pool not allowed, with the liquidity at and
\* one below the threshold, or with no meta; a Chainlink answer carrying
\* the meta of a TWAP that fails every TWAP guard
QuotePool(nowSec) ==
    [chainlink |->
        {Quote("chainlink", 20, 17, nowSec - age, NoMeta) : age \in {60, 61, 300, 301}}
        \cup {Quote("chainlink", 21, 17, nowSec, NoMeta),
              Quote("chainlink", -201, 18, nowSec, NoMeta),
              Quote("chainlink", 20, 17, nowSec,
                    [poolAddress |-> "0xOther", windowSec |-> 0,
                     harmonicMeanLiquidity |-> 0])},
     pyth |->
        {Quote("pyth", 199, 18, nowSec - age, [confidence |-> [bigint |-> 1]]) : age \in {0, 30, 31}}
        \cup {Quote("pyth", 199, 18, nowSec, [confidence |-> [bigint |-> 3]]),
              Quote("pyth", 199, 18, nowSec, [confidence |-> [string |-> toString(1)]]),
              Quote("pyth", 199, 18, nowSec, NoMeta)},
     uniswap_v3_twap |->
        {Quote("uniswap_v3_twap", 2010, 19, nowSec, TwapMeta(3600)),
         Quote("uniswap_v3_twap", 2005, 19, nowSec - 1800, TwapMeta(3600)),
         Quote("uniswap_v3_twap", 2010, 19, nowSec - 1801, TwapMeta(3600)),
         Quote("uniswap_v3_twap", 2010, 19, nowSec, TwapMeta(600)),
         Quote("uniswap_v3_twap", 2010, 19, nowSec, PoolMeta("0xOther", 2000)),
         Quote("uniswap_v3_twap", 2010, 19, nowSec, PoolMeta("0xPool", 1000)),
         Quote("uniswap_v3_twap", 2010, 19, nowSec, PoolMeta("0xPool", 999)),
         Quote("uniswap_v3_twap", 2010, 19, nowSec, NoMeta)},
     api3 |->
        {Quote("api3", 200, 18, nowSec - age, NoMeta) : age \in {300, 301}}]

\* the order in which gatherOraclePrices asks the adapters
SourceRank == [chainlink |-> 1, pyth |-> 2, uniswap_v3_twap |-> 3, api3 |-> 4]

\* nothing or one quote of the source
Pick(nowSec, source) == {<< >>} \cup {<<q>> : q \in QuotePool(nowSec)[source]}

\* at most one quote per source, as gatherOraclePrices collects them
QuoteLists(nowSec) ==
    {qs \in {pick.chainlink \o pick.pyth \o pick.uniswap_v3_twap \o pick.api3 :
                pick \in [chainlink : Pick(nowSec, "chainlink"),
                          pyth : Pick(nowSec, "pyth"),
                          uniswap_v3_twap : Pick(nowSec, "uniswap_v3_twap"),
                          api3 : Pick(nowSec, "api3")]} :
        Len(qs) <= MaxQuotes}

InitQuotes ==
    /\ InitBalancer
    /\ InitStore
    /\ oracleNow = 0
    /\ config \in Configs
    /\ quotes \in QuoteLists(oracleNow)
    /\ verdict = NoVerdict
    /\ InitEval
    /\ InitService

\* candidates.filter((price) => this.isValid(price, tokenConfig))
filterValid ==
    /\ verdict.stage = "none"
    /\ verdict' = [stage |-> "validated",
                   validated |-> validate(quotes, config, oracleNow)]
    /\ UNCHANGED <<balancerVars, evaluation, serviceVars,
                   lastGoodStore, oracleNow, agg, quotes, config>>

\* checkDivergence and the degraded or the median branch
aggregateValid ==
    /\ verdict.stage = "validated"
    /\ verdict.validated # << >>
    /\ verdict' = [stage |-> "consolidated", validated |-> verdict.validated,
                   price |-> consolidate(verdict.validated, config, oracleNow)]
    /\ UNCHANGED <<balancerVars, evaluation, serviceVars,
                   lastGoodStore, oracleNow, agg, quotes, config>>

\* the same quotes delivered in another order
deliverReordered(f) ==
    /\ quotes' = [i \in 1..Len(quotes) |-> quotes[f[i]]]
    /\ quotes' # quotes
    /\ verdict' = NoVerdict
    /\ UNCHANGED <<balancerVars, evaluation, serviceVars,
                   lastGoodStore, oracleNow, agg, config>>

NextQuotes ==
    \/ filterValid
    \/ aggregateValid
    \/ \E f \in Permutations(1..Len(quotes)) : deliverReordered(f)

SpecQuotes == InitQuotes /\ [][NextQuotes]_vars

----------------------------------------------------------------------------
(* Properties of the price oracle *)

Done(p) == agg[p].pc = "done"

Succeeded(p) == Done(p) /\ agg[p].out = "ok"

\* slot p finishes its run in this step
Finishes(p) == agg[p].pc # "done" /\ agg'[p].pc = "done"

\* what the row of the token holds
storedPrice(token) == BigInt(lastGoodStore[findOne(token)].price)

\* C12: a run that returns has mode frozen exactly with no valid quote,
\* degraded exactly with one, normal exactly with two or more, and its
\* sourcesUsed is the validated quotes (none when frozen).
C12_ModeByValidCount ==
    \A p \in Requests :
        Succeeded(p) =>
            /\ (agg[p].price.mode = "frozen") <=> (Len(agg[p].validated) = 0)
            /\ (agg[p].price.mode = "degraded") <=> (Len(agg[p].validated) = 1)
            /\ (agg[p].price.mode = "normal") <=> (Len(agg[p].validated) >= 2)
            /\ agg[p].price.sourcesUsed = sourcesUsedOf(agg[p].validated)

C12_Witness ==
    \E p, q \in Requests :
        /\ Succeeded(p) /\ agg[p].price.mode = "degraded"
        /\ Succeeded(q) /\ agg[q].price.mode = "normal"
        /\ Len(agg[q].validated) = 3

\* C13: a run without a valid quote returns and persists the price that the
\* run which last persisted for the token left in the store.
C13_FrozenKeepsLastPrice ==
    [][\A p \in Requests :
          (Finishes(p) /\ agg'[p].out = "ok" /\ agg'[p].price.mode = "frozen")
          => agg'[p].price.price = storedPrice(agg'[p].token)]_vars

\* C14: every returned price and every stored row has 18 decimals; a
\* degraded run returns its single quote rescaled to 18 decimals.
C14_CanonicalScale ==
    /\ \A p \in Requests :
           Succeeded(p) =>
               /\ agg[p].price.priceDecimals = SCALE_DECIMALS
               /\ agg[p].price.mode = "degraded" =>
                      agg[p].price.price =
                          rescale(agg[p].validated[1].price,
                                  agg[p].validated[1].priceDecimals, SCALE_DECIMALS)
    /\ \A i \in 1..Len(lastGoodStore) :
           lastGoodStore[i].priceDecimals = SCALE_DECIMALS

C16_FrozenNotSticky ==
    [][\A p, q \in Requests :
          (/\ Succeeded(q) /\ agg[q].price.mode = "frozen"
           /\ lastGoodStore[findOne(agg[q].token)] = rowOf(agg[q].token, agg[q].price)
           /\ agg'[p] # agg[p] /\ agg'[p].pc = "putLastGood"
           /\ agg'[p].token = agg[q].token
           /\ agg'[p].validated # << >>)
          => /\ (Len(agg'[p].validated) = 1) =>
                    /\ agg'[p].price.mode = "degraded"
                    /\ agg'[p].price.sourcesUsed = sourcesUsedOf(agg'[p].validated)
                    /\ Len(agg'[p].price.sourcesUsed) = 1
             /\ (Len(agg'[p].validated) >= 2) => agg'[p].price.mode = "normal"]_vars

C16_Witness ==
    \E p, q \in Requests :
        /\ Succeeded(q) /\ agg[q].price.mode = "frozen"
        /\ Succeeded(p) /\ agg[p].price.mode = "degraded"
        /\ agg[p].token = agg[q].token
        /\ lastGoodStore[findOne(agg[p].token)] = rowOf(agg[p].token, agg[p].price)
        /\ agg[p].price.price # agg[q].price.price

----------------------------------------------------------------------------
(* Properties of the aggregation functions *)

Consolidated == verdict.stage = "consolidated"

\* the quotient of a by m rounded toward zero, said without division
TowardZeroQuotient(a, m) ==
    CHOOSE q \in -Abs(a)..Abs(a) :
        /\ Abs(q) * m <= Abs(a)
        /\ Abs(a) < (Abs(q) + 1) * m
        /\ (q = 0 \/ (q < 0) = (a < 0))

\* the price of a quote at 18 decimals
Scaled18(q) ==
    IF q.priceDecimals <= SCALE_DECIMALS
    THEN q.price * Pow10(SCALE_DECIMALS - q.priceDecimals)
    ELSE TowardZeroQuotient(q.price, Pow10(q.priceDecimals - SCALE_DECIMALS))

\* the k-th element (from 1) of xs put in ascending order, said by counting
KthSmallest(xs, k) ==
    CHOOSE v \in {xs[i] : i \in 1..Len(xs)} :
        /\ Cardinality({i \in 1..Len(xs) : xs[i] < v}) < k
        /\ k <= Cardinality({i \in 1..Len(xs) : xs[i] <= v})

\* C17: with two or more valid quotes the price is the integer median of
\* the quotes at 18 decimals in ascending order: the middle one for an odd
\* count, the sum of the two middle ones halved toward zero for an even one.
C17_MedianOfRescaled ==
    (Consolidated /\ Len(verdict.validated) >= 2) =>
        LET n == Len(verdict.validated)
            xs == [i \in 1..n |-> Scaled18(verdict.validated[i])]
        IN  /\ verdict.price.mode = "normal"
            /\ verdict.price.price =
                   IF n % 2 = 1
                   THEN KthSmallest(xs, ((n - 1) \div 2) + 1)
                   ELSE TowardZeroQuotient(
                            KthSmallest(xs, n \div 2) + KthSmallest(xs, (n \div 2) + 1), 2)

C17_Witness ==
    /\ Consolidated
    /\ Len(verdict.validated) = 2
    /\ Scaled18(verdict.validated[1]) + Scaled18(verdict.validated[2]) = -1
    /\ verdict.price.price = 0

\* C18: mode and price are the same for every order of delivery of the
\* same quotes under the same configuration.
C18_OrderIndependent ==
    (verdict.stage # "none") =>
        \A f \in Permutations(1..Len(quotes)) :
            LET valid == validate([i \in 1..Len(quotes) |-> quotes[f[i]]],
                                  config, oracleNow)
            IN  /\ Len(valid) = Len(verdict.validated)
                /\ Consolidated =>
                       /\ consolidate(valid, config, oracleNow).mode = verdict.price.mode
                       /\ consolidate(valid, config, oracleNow).price = verdict.price.price

C18_Witness ==
    /\ Consolidated
    /\ Len(verdict.validated) = 3
    /\ SourceRank[quotes[1].source] > SourceRank[quotes[2].source]
    /\ Scaled18(verdict.validated[1]) > Scaled18(verdict.validated[3])
    /\ Scaled18(verdict.validated[3]) > Scaled18(verdict.validated[2])

DeltaBpsValues == {0, 1, 150, 10000}

withDeltaBps(cfg, deltaBps) ==
    [field \in DOMAIN cfg \cup {"deltaBps"} |->
        IF field = "deltaBps" THEN deltaBps ELSE cfg[field]]

\* C19: the divergence check drops and changes nothing: sourcesUsed is the
\* validated quotes, and the result is the same under every deltaBps.
C19_DivergenceNeverRejects ==
    Consolidated =>
        /\ verdict.price.sourcesUsed = sourcesUsedOf(verdict.validated)
        /\ \A d \in DeltaBpsValues :
               consolidate(verdict.validated, withDeltaBps(config, d), oracleNow)
                   = verdict.price

C19_Witness ==
    /\ Consolidated
    /\ verdict.price.mode = "normal"
    /\ checkDivergence(verdict.validated, config).warned # {}
    /\ Len(verdict.price.sourcesUsed) = Len(verdict.validated)

\* C20: a quote passes the freshness gate exactly when now - at <= ttl, ttl
\* being the ttlBySource entry of its source or else the default of the
\* source; a stale quote is in no sourcesUsed and takes no part in the price.
C20_FreshnessGate ==
    (verdict.stage # "none") =>
        /\ \A i \in 1..Len(quotes) :
               LET q == quotes[i]
                   ttl == IF Has(config, "ttlBySource") /\ q.source \in DOMAIN config.ttlBySource
                          THEN config.ttlBySource[q.source]
                          ELSE DefaultTtl[q.source]
               IN  /\ (oracleNow - q.at > ttl) => ~InSeq(q, verdict.validated)
                   /\ (oracleNow - q.at <= ttl /\ confidenceOk(q, config) /\ twapOk(q, config))
                          => InSeq(q, verdict.validated)
        /\ Consolidated =>
               /\ \A j \in 1..Len(verdict.price.sourcesUsed) :
                      oracleNow - verdict.price.sourcesUsed[j].at
                          <= ttlOf(config, verdict.price.sourcesUsed[j].source)
               /\ verdict.price =
                      consolidate(
                          validate(SelectSeq(quotes,
                                       LAMBDA q : oracleNow - q.at <= ttlOf(config, q.source)),
                                   config, oracleNow),
                          config, oracleNow)

C20_Witness ==
    /\ Consolidated
    /\ \E i, j \in 1..Len(quotes) :
           /\ Has(config, "ttlBySource")
           /\ quotes[i].source \in DOMAIN config.ttlBySource
           /\ oracleNow - quotes[i].at = config.ttlBySource[quotes[i].source]
           /\ InSeq(quotes[i], verdict.validated)
           /\ quotes[j].source \notin DOMAIN config.ttlBySource
           /\ oracleNow - quotes[j].at = DefaultTtl[quotes[j].source] + 1
           /\ ~InSeq(quotes[j], verdict.validated)

----------------------------------------------------------------------------
(* The Pyth confidence gate and the TWAP guards *)

\* the quote of the source among those delivered (each source answers once)
quoteOf(source) ==
    quotes[CHOOSE i \in 1..Len(quotes) : quotes[i].source = source]

\* the number a confidence stands for, whichever its type
confidenceValue(priceData) ==
    IF Has(priceData.meta.confidence, "bigint")
    THEN priceData.meta.confidence.bigint
    ELSE BigInt(priceData.meta.confidence.string)

\* confidence * 10^6 <= price * floor(epsilon * 10^6), on integers
integerGate(priceData, cfg) ==
    LET epsilon == IF Has(cfg, "epsilon") THEN cfg.epsilon ELSE DefaultEpsilon
    IN  confidenceValue(priceData) * ConfidenceScale
            <= priceData.price * (epsilon \div (EpsilonDenominator \div ConfidenceScale))

\* C21: a fresh Pyth quote with a confidence is kept by the validation
\* exactly when confidence * 10^6 <= price * floor(epsilon * 10^6), and a
\* Pyth quote failing that comparison is not among sourcesUsed.
C21_ConfidenceGate ==
    verdict.stage # "none" =>
        \A i \in 1..Len(quotes) :
            LET q == quotes[i]
            IN  (q.source = "pyth" /\ Has(q.meta, "confidence")) =>
                    /\ ~isStale(q, config, oracleNow) =>
                           (InSeq(q, verdict.validated) <=> integerGate(q, config))
                    /\ (Consolidated /\ ~integerGate(q, config)) =>
                           \A j \in 1..Len(verdict.price.sourcesUsed) :
                               verdict.price.sourcesUsed[j].source # "pyth"

\* C22: every Pyth entry of sourcesUsed comes from a quote that carried
\* meta.confidence and passed the confidence gate.
C22_PythNeedsConfidence ==
    Consolidated =>
        \A j \in 1..Len(verdict.price.sourcesUsed) :
            verdict.price.sourcesUsed[j].source = "pyth" =>
                /\ Has(quoteOf("pyth").meta, "confidence")
                /\ confidenceOk(quoteOf("pyth"), config)

\* a source has an entry in sourcesUsed
Used(source) ==
    \E j \in 1..Len(verdict.price.sourcesUsed) :
        verdict.price.sourcesUsed[j].source = source

\* the three TWAP conditions, a threshold the configuration leaves out
\* counting as 0 and a meta field the quote leaves out as failing the pool
\* condition or as 0
poolAllowed(priceData, cfg) ==
    /\ Has(priceData.meta, "poolAddress")
    /\ Has(cfg, "allowedPools")
    /\ \E k \in 1..Len(cfg.allowedPools) : cfg.allowedPools[k] = priceData.meta.poolAddress

windowLongEnough(priceData, cfg) ==
    Has(cfg, "twapWindow") =>
        /\ cfg.twapWindow > 0 => Has(priceData.meta, "windowSec")
        /\ Has(priceData.meta, "windowSec") => priceData.meta.windowSec >= cfg.twapWindow

liquidEnough(priceData, cfg) ==
    Has(cfg, "minLiquidity") =>
        /\ cfg.minLiquidity > 0 => Has(priceData.meta, "harmonicMeanLiquidity")
        /\ Has(priceData.meta, "harmonicMeanLiquidity") =>
               priceData.meta.harmonicMeanLiquidity >= cfg.minLiquidity

\* C23: a uniswap_v3_twap quote is among the validated ones only if its
\* pool is allowed, its window reaches twapWindow and its liquidity
\* reaches minLiquidity, and a fresh one meeting all three is; one failing
\* any of them has no entry in sourcesUsed; a quote of another source is
\* validated whatever pool, window or liquidity its meta names.
C23_TwapGates ==
    verdict.stage # "none" =>
        \A i \in 1..Len(quotes) :
            LET q == quotes[i]
                gates == /\ poolAllowed(q, config)
                         /\ windowLongEnough(q, config)
                         /\ liquidEnough(q, config)
            IN  IF q.source = "uniswap_v3_twap"
                THEN /\ InSeq(q, verdict.validated) => gates
                     /\ (gates /\ ~isStale(q, config, oracleNow)) =>
                            InSeq(q, verdict.validated)
                     /\ (Consolidated /\ ~gates) => ~Used("uniswap_v3_twap")
                ELSE InSeq(q, verdict.validated) <=>
                         (~isStale(q, config, oracleNow) /\ confidenceOk(q, config))

C23_Witness ==
    /\ Consolidated
    /\ Has(config, "minLiquidity")
    /\ \E i, j \in 1..Len(quotes) :
           /\ quotes[i].source = "uniswap_v3_twap"
           /\ poolAllowed(quotes[i], config)
           /\ windowLongEnough(quotes[i], config)
           /\ ~liquidEnough(quotes[i], config)
           /\ ~Used("uniswap_v3_twap")
           /\ quotes[j].source = "chainlink"
           /\ Has(quotes[j].meta, "poolAddress")
           /\ ~poolAllowed(quotes[j], config)
           /\ Used("chainlink")

----------------------------------------------------------------------------
(* The last-good table under overlapping runs *)

\* slot p takes a step of its run
Steps(p) == agg'[p] # agg[p]

\* slot p has read the row of its token (getLastGood of the frozen branch,
\* or the SELECT of findOrCreate) and has not written it yet
BetweenReadAndWrite(p) ==
    \/ agg[p].pc \in {"create", "update"}
    \/ agg[p].pc = "putLastGood" /\ agg[p].price.mode = "frozen"

\* C24: the at of a row of the last-good table never decreases.
C24_AtNeverDecreases ==
    [][\A i \in 1..Len(lastGoodStore) :
          lastGoodStore'[i].at >= lastGoodStore[i].at]_vars

\* C25: no two runs for the same token are both between reading the
\* last-good row and writing it.
C25_WritesSerialized ==
    \A p, q \in Requests :
        (p # q /\ toUpperCase(agg[p].token) = toUpperCase(agg[q].token))
        => ~(BetweenReadAndWrite(p) /\ BetweenReadAndWrite(q))

C28_AtIsConsolidationTime ==
    [][\A p \in Requests :
          (agg[p].price = NoPrice /\ agg'[p].price # NoPrice)
          => agg'[p].price.at = oracleNow]_vars

----------------------------------------------------------------------------
(* TriggerEvaluator applied to triggers, histories and prices at will *)

\* both directions, thresholds of $2000 and $3000, no hysteresis, 1% and
\* 2.5%, enabled or not; amount and cooldown as in TriggerTable
Triggers ==
    {[id |-> 1, threshold |-> threshold, direction |-> direction,
      moveAmountType |-> "PERCENT", moveAmount |-> 5000, executionMode |-> "EOA",
      hysteresisBps |-> hysteresisBps, cooldownSec |-> 1, enabled |-> enabled] :
        threshold \in {2000, 3000}, direction \in {"hot_to_cold", "cold_to_hot"},
        hysteresisBps \in {0, 100, 250}, enabled \in BOOLEAN}

\* the prices at which some trigger of Triggers changes its answer, in
\* dollars, and the prices of the messages: these, ten cents less and ten
\* cents more, with one decimal
EdgePrices == {1950, 1980, 2000, 2020, 2050, 2925, 2970, 3000, 3030, 3075}

EvalPriceMsgs ==
    {[price |-> 10 * edge + d, priceDecimals |-> 1, at |-> 0] :
        edge \in EdgePrices, d \in {-1, 0, 1}}

\* no transfer mined yet, or one mined for the trigger at time 0
Histories ==
    {<< >>,
     <<[idempotencyKey |-> <<1, 0, 2000, "hot_to_cold">>, triggerId |-> 1,
        amount |-> 2000, status |-> "MINED_SUCCESS", txHash |-> 1, createdAt |-> 0]>>}

NoResult == [priceMsg |-> [price |-> 0, priceDecimals |-> 1, at |-> 0],
             met |-> FALSE, out |-> << >>]

InitTrigger ==
    /\ InitOracle
    /\ intents \in Histories
    /\ chain = << >>
    /\ now \in {0, MsPerSec}
    /\ run = [p \in Procs |-> IdleRun]
    /\ fired = << >>
    /\ msgCount = 0
    /\ repoCalls = 0
    /\ repoOut = NoCall
    /\ InitService
    /\ evaluation \in [state : {"ready"}, trigger : Triggers,
                        currentBalance : Balances,
                        earlier : {NoResult}, result : {NoResult}]

\* evaluateTrigger(trigger, priceMsg, currentBalance), the answer of
\* isThresholdMet on the way kept next to the signal or null returned;
\* trigger, balance and intents stay as they are from call to call
evaluateAt(priceMsg) ==
    /\ evaluation' =
           [evaluation EXCEPT
               !.state = "evaluated",
               !.earlier = evaluation.result,
               !.result =
                   [priceMsg |-> priceMsg,
                    met |-> isThresholdMet(evaluation.trigger, priceMsg.price,
                                           priceMsg.priceDecimals),
                    out |-> evaluateTrigger(evaluation.trigger, priceMsg,
                                            evaluation.currentBalance)]]
    /\ UNCHANGED <<balancerVars, oracleVars, service, lookup>>

NextTrigger == \E priceMsg \in EvalPriceMsgs : evaluateAt(priceMsg)

SpecTrigger == InitTrigger /\ [][NextTrigger]_vars

\* 10000 * 10^decimals times the distance of the price above the threshold
aboveThreshold(priceMsg, trigger) ==
    BpsDenominator * priceMsg.price
        - BpsDenominator * trigger.threshold * Pow10(priceMsg.priceDecimals)

\* 10000 * 10^decimals times h = threshold * hysteresisBps / 10000
scaledHysteresis(priceMsg, trigger) ==
    trigger.threshold * trigger.hysteresisBps * Pow10(priceMsg.priceDecimals)

----------------------------------------------------------------------------
(* TriggerEvaluator applied to amounts, balances, cooldowns and lookups *)

\* the trigger of TriggerTable moving 0.7%, 25%, 50% or 150% of the balance,
\* with and without a cooldown
AmountTriggers ==
    {[id |-> 1, threshold |-> 2000, direction |-> "hot_to_cold",
      moveAmountType |-> "PERCENT", moveAmount |-> moveAmount,
      executionMode |-> "EOA", hysteresisBps |-> 100,
      cooldownSec |-> cooldownSec, enabled |-> TRUE] :
        moveAmount \in {70, 2500, 5000, 15000}, cooldownSec \in {0, 1}}

\* balances in wei: none, one that a percentage truncates to zero, and one
\* the percentages divide
EvalBalances == {0, 1, 1000}

\* $2019.9 (below the gate), $2020.0 (on it) and $2500.0
AmountPriceMsgs ==
    {[price |-> price, priceDecimals |-> 1, at |-> 0] :
        price \in {20199, 20200, 25000}}

InitAmount ==
    /\ InitOracle
    /\ intents \in Histories
    /\ chain = << >>
    /\ now \in {0, MsPerSec}
    /\ run = [p \in Procs |-> IdleRun]
    /\ fired = << >>
    /\ msgCount = 0
    /\ repoCalls = 0
    /\ repoOut = NoCall
    /\ service = Started
    /\ lookup \in Lookups
    /\ evaluation \in [state : {"ready"}, trigger : AmountTriggers,
                        currentBalance : EvalBalances,
                        earlier : {NoResult}, result : {NoResult}]

NextAmount == \E priceMsg \in AmountPriceMsgs : evaluateAt(priceMsg)

SpecAmount == InitAmount /\ [][NextAmount]_vars

\* C31: for a PERCENT trigger the amount of the signal is
\* balance * bps / 10000 truncated, bps being the percentage times 100
\* (moveAmount is held in hundredths, so bps is moveAmount itself).
C31_PercentAmount ==
    (/\ evaluation.state = "evaluated"
     /\ evaluation.trigger.moveAmountType = "PERCENT"
     /\ evaluation.result.out # << >>)
    => evaluation.result.out[1].amount =
           (evaluation.currentBalance * evaluation.trigger.moveAmount)
               \div BpsDenominator

C37_FailedLookupNeverFires ==
    (evaluation.state = "evaluated" /\ lookup # "rows")
    => evaluation.result.out = << >>

----------------------------------------------------------------------------
(* rescale applied to prices and decimals at will *)

MaxRescaleValue == 300   \* mantissas from -300 to 300

\* decimals two below to two above the scale of 18
RescaleDecimals == (SCALE_DECIMALS - 2)..(SCALE_DECIMALS + 2)

InitRescale ==
    /\ InitBalancer
    /\ InitStore
    /\ InitEval
    /\ InitService
    /\ oracleNow = 0
    /\ quotes = << >>
    /\ config = NoConfig
    /\ verdict \in [stage : {"price"},
                     value : (-MaxRescaleValue)..MaxRescaleValue,
                     fromDecimals : RescaleDecimals]

\* this.rescale(v.price, v.priceDecimals, SCALE_DECIMALS), as
\* getSortedRescaledPrices and checkDivergence call it
rescaleToScale ==
    /\ verdict.stage = "price"
    /\ verdict' = [stage |-> "rescaled", value |-> verdict.value,
                   fromDecimals |-> verdict.fromDecimals,
                   out |-> rescale(verdict.value, verdict.fromDecimals,
                                   SCALE_DECIMALS)]
    /\ UNCHANGED <<balancerVars, evaluation, serviceVars,
                   lastGoodStore, oracleNow,
                   agg, quotes, config>>

NextRescale == rescaleToScale

SpecRescale == InitRescale /\ [][NextRescale]_vars

\* C33: a price at 18 decimals or fewer, rescaled to 18 decimals and scaled
\* back by the same power of ten, is the original price; a price at more than
\* 18 decimals is divided with the quotient truncated toward zero: the result
\* times the power of ten is no further from zero than the price, by less than
\* the power of ten, and has no other sign.
C33_RescaleExactOrTruncated ==
    verdict.stage = "rescaled" =>
        IF verdict.fromDecimals <= SCALE_DECIMALS
        THEN rescale(verdict.out, SCALE_DECIMALS, verdict.fromDecimals)
                 = verdict.value
        ELSE LET widened == verdict.out * Pow10(verdict.fromDecimals - SCALE_DECIMALS)
             IN  /\ Abs(widened) <= Abs(verdict.value)
                 /\ Abs(verdict.value) - Abs(widened)
                        < Pow10(verdict.fromDecimals - SCALE_DECIMALS)
                 /\ (verdict.value >= 0) => (widened >= 0)
                 /\ (verdict.value <= 0) => (widened <= 0)

\* -250 at 20 decimals becomes -2 (the floor is -3)
C33_Witness ==
    /\ verdict.stage = "rescaled"
    /\ verdict.fromDecimals = SCALE_DECIMALS + 2
    /\ verdict.value = -250
    /\ verdict.out = -2

----------------------------------------------------------------------------
(* gatherOraclePrices applied to pool lists and adapter answers at will *)

GatherPools == {"0xPool", "0xOther"}

\* the configuration of ETH with no pool, one pool, two pools in either
\* order, without a twapWindow and without allowedPools
GatherConfigs ==
    {[TokenConfigTable.ETH EXCEPT !.allowedPools = pools] :
        pools \in {<< >>, <<"0xPool">>, <<"0xPool", "0xOther">>,
                   <<"0xOther", "0xPool">>}}
    \cup {[symbol |-> "ETH", minLiquidity |-> 1000,
           allowedPools |-> <<"0xPool", "0xOther">>],
          [symbol |-> "ETH", minLiquidity |-> 1000, twapWindow |-> 3600]}

\* what the TWAP adapter may answer for a pool: nothing, an exception, $2010
\* over the whole window, or the same from too little liquidity
GatherAnswers(pool) ==
    {Miss, Throw,
     Ok(Quote("uniswap_v3_twap", 2010, 19, 0, PoolMeta(pool, 2000))),
     Ok(Quote("uniswap_v3_twap", 2010, 19, 0, PoolMeta(pool, 999)))}

GatherResponses ==
    {[chainlink |-> chainlink, pyth |-> Throw,
      uniswap_v3_twap |-> [pool \in GatherPools |->
                              IF pool = "0xPool" THEN first ELSE second]] :
        chainlink \in {Throw, Ok(Quote("chainlink", 20, 17, 0, NoMeta))},
        first \in GatherAnswers("0xPool"), second \in GatherAnswers("0xOther")}

InitGather ==
    /\ InitBalancer
    /\ InitStore
    /\ InitEval
    /\ InitService
    /\ oracleNow = 0
    /\ quotes = << >>
    /\ config \in GatherConfigs
    /\ verdict = NoVerdict

\* gatherOraclePrices(token, config) and the filter that follows it in
\* getConsolidatedPrice
gather(responses) ==
    /\ verdict.stage = "none"
    /\ verdict' = [stage |-> "gathered", responses |-> responses,
                   queried |-> poolsQueried(responses, config),
                   out |-> gatherOraclePrices(responses, config).out,
                   validated |-> validate(gatherOraclePrices(responses, config).out,
                                          config, oracleNow)]
    /\ UNCHANGED <<balancerVars, evaluation, serviceVars,
                   lastGoodStore, oracleNow,
                   agg, quotes, config>>

NextGather == \E responses \in GatherResponses : gather(responses)

SpecGather == InitGather /\ [][NextGather]_vars

twapQuotes(candidates) ==
    SelectSeq(candidates, LAMBDA priceData : priceData.source = "uniswap_v3_twap")

\* C34: a run calls the TWAP adapter for the allowedPools in their declared
\* order, stops at the first pool that returns a quote and puts at most that
\* one TWAP quote among the candidates, valid or not; later pools are not
\* called; no pool is called when allowedPools is empty or twapWindow is
\* unset.
C34_FirstAnsweringPool ==
    verdict.stage = "gathered" =>
        LET queried == verdict.queried
            answers == verdict.responses.uniswap_v3_twap
            twaps == twapQuotes(verdict.out)
            skipped == \/ ~Has(config, "allowedPools")
                       \/ ~Has(config, "twapWindow")
                       \/ config.allowedPools = << >>
        IN  /\ Len(twaps) <= 1
            /\ skipped => (queried = << >> /\ twaps = << >>)
            /\ ~skipped =>
                  /\ Len(queried) <= Len(config.allowedPools)
                  /\ \A k \in 1..Len(queried) : queried[k] = config.allowedPools[k]
                  /\ \A k \in 1..(Len(queried) - 1) : answers[queried[k]].kind # "ok"
                  /\ IF answers[queried[Len(queried)]].kind = "ok"
                     THEN twaps = <<answers[queried[Len(queried)]].data>>
                     ELSE twaps = << >> /\ Len(queried) = Len(config.allowedPools)

\* the first pool answers from too little liquidity, the second would
\* answer well: the second is not asked and no TWAP quote is valid
C34_Witness ==
    /\ verdict.stage = "gathered"
    /\ Has(config, "allowedPools") /\ Has(config, "twapWindow")
    /\ config.allowedPools = <<"0xOther", "0xPool">>
    /\ verdict.responses.uniswap_v3_twap["0xOther"].kind = "ok"
    /\ verdict.responses.uniswap_v3_twap["0xOther"].data.meta.harmonicMeanLiquidity = 999
    /\ verdict.responses.uniswap_v3_twap["0xPool"].kind = "ok"
    /\ verdict.responses.uniswap_v3_twap["0xPool"].data.meta.harmonicMeanLiquidity = 2000
    /\ verdict.queried = <<"0xOther">>
    /\ Len(twapQuotes(verdict.out)) = 1
    /\ twapQuotes(verdict.validated) = << >>

----------------------------------------------------------------------------
\* C35: the idempotency key depends on the signal's triggerId, timestamp,
\* amount and direction only: runs that hold the same signal compute the same
\* key, signals that agree on the four fields have the same key, and the key
\* of the signal a run holds stays what it is while the clock moves and other
\* runs come and go, so a retry computes the key of the first attempt.
C35_KeyOfSignalOnly ==
    [][/\ \A p, q \in Procs :
              (/\ run[p].signal # NoSignal /\ run[q].signal # NoSignal
               /\ run[p].signal.triggerId = run[q].signal.triggerId
               /\ run[p].signal.timestamp = run[q].signal.timestamp
               /\ run[p].signal.amount = run[q].signal.amount
               /\ run[p].signal.direction = run[q].signal.direction)
              => KeyOf(p) = KeyOf(q)
       /\ \A p \in Procs :
              (run[p].signal # NoSignal /\ run'[p].signal = run[p].signal)
              => KeyOf(p)' = KeyOf(p)]_vars

\* a signal of time 0 handed over again when the clock has moved: the run
\* finds the intent of the first attempt under its key
C35_Witness ==
    \E p \in Procs :
        /\ run[p].signal # NoSignal
        /\ run[p].out = "existing"
        /\ run[p].signal.timestamp < now
        /\ \E i \in 1..Len(intents) :
               /\ intents[i].idempotencyKey = KeyOf(p)
               /\ intents[i].createdAt < now

----------------------------------------------------------------------------
(* The service started and stopped while price messages arrive *)

MaxCalls == 3         \* calls of start() and stop() in one behaviour

\* $2500.0 for ETH, whose trigger runs on the hot key, and for WBTC, whose
\* trigger is to go through a Safe
ServiceMsgs ==
    {[token |-> "ETH", price |-> 25000, priceDecimals |-> 1],
     [token |-> "WBTC", price |-> 25000, priceDecimals |-> 1]}

InitConstructed ==
    /\ InitBalancer
    /\ InitOracle
    /\ InitEval
    /\ service = Constructed
    /\ lookup = "rows"

\* start() through `await this.initializeDatabase()`; a running service
\* returns at once
start ==
    /\ service.calls < MaxCalls
    /\ service' =
           IF isRunning
           THEN [service EXCEPT !.calls = @ + 1, !.lastCall = "start"]
           ELSE [service EXCEPT !.calls = @ + 1, !.starting = @ + 1]
    /\ UNCHANGED <<balancerVars, oracleVars, evaluation, lookup>>

\* initializeDatabase resolves (getAllTriggers returns [] on a database
\* error, so it never rejects): isRunning = true, emit('started')
initializeDatabase ==
    /\ service.starting > 0
    /\ service' = [service EXCEPT !.starting = @ - 1,
                                  !.isRunning = TRUE,
                                  !.emitted = Append(@, "started"),
                                  !.lastCall = "start"]
    /\ UNCHANGED <<balancerVars, oracleVars, evaluation, lookup>>

\* stop(): a service not running returns at once; else isRunning = false,
\* emit('stopped')
stop ==
    /\ service.calls < MaxCalls
    /\ service' =
           IF ~isRunning
           THEN [service EXCEPT !.calls = @ + 1, !.lastCall = "stop"]
           ELSE [service EXCEPT !.calls = @ + 1, !.lastCall = "stop",
                                !.isRunning = FALSE,
                                !.emitted = Append(@, "stopped")]
    /\ UNCHANGED <<balancerVars, oracleVars, evaluation, lookup>>

NextService ==
    \/ start
    \/ initializeDatabase
    \/ stop
    \/ \E p \in Procs, m \in ServiceMsgs : processPriceMessage(p, m, 4000)
    \/ \E p \in Procs : executeTransfer(p)
    \/ \E p \in Procs : storePlanned(p)
    \/ \E p \in Procs, o \in {"ok", "terminal"} : submitTransfer(p, o)
    \/ \E p \in Procs : persistSubmitted(p)
    \/ \E p \in Procs, r \in {"success", "reverted"} : waitForTransaction(p, r)
    \/ \E p \in Procs : persistMined(p)

SpecService == InitConstructed /\ [][NextService]_vars

SafeModes == {"SAFE_PROPOSE", "SAFE_EXECUTE"}

\* C36: when the run for a fired signal of a multisig rule has returned, the
\* table holds an intent of the signal in status PROPOSED, and at no time is
\* an intent of such a signal SUBMITTED or a transaction broadcast for it.
C36_SafeIntentProposed ==
    \A p \in Procs :
        (run[p].signal # NoSignal /\ run[p].signal.executionMode \in SafeModes)
        => /\ run[p].pc = "done" =>
                  \E i \in RowsOf(KeyOf(p)) : intents[i].status = "PROPOSED"
           /\ \A i \in RowsOf(KeyOf(p)) : intents[i].status # "SUBMITTED"
           /\ \A k \in 1..Len(chain) : chain[k].key # KeyOf(p)

C39_NothingAfterStop ==
    [][(~service.isRunning /\ service.lastCall = "stop") =>
           (Len(intents') = Len(intents) /\ chain' = chain)]_vars

----------------------------------------------------------------------------
\* C40: an intent in status SUBMITTED, MINED_SUCCESS or MINED_FAILED carries
\* a txHash and an intent in PLANNED carries none; a txHash once stored is
\* not changed or cleared by a later updateStatus.
C40_TxHashKept ==
    [][\A i \in 1..Len(intents') :
          /\ intents'[i].status \in {"SUBMITTED", "MINED_SUCCESS", "MINED_FAILED"}
                 => intents'[i].txHash # NoTx
          /\ intents'[i].status = "PLANNED" => intents'[i].txHash = NoTx
          /\ (i <= Len(intents) /\ intents[i].txHash # NoTx)
                 => intents'[i].txHash = intents[i].txHash]_vars

====
